---- MODULE Spec2Model ----
(***************************************************************************)
(* Education process orchestrator: EducationOrchestrator (start_process,   *)
(* get_process, advance, suggest_next_step) over EducationSessionService   *)
(* (the education_sessions table), with the workflow catalog and the       *)
(* ProcessInstance / StepResult data model.                                *)
(*                                                                         *)
(* Conventions of the model                                                *)
(*  - an enum member is represented by its value ("explain"); what str()   *)
(*    makes of a member is a different string ("StepType.explain");        *)
(*  - an Optional value is a sequence of length 0 (None) or 1;             *)
(*  - an optional string argument is a string, None being "None";          *)
(*  - scores and confidences are hundredths (0.85 is 85);                  *)
(*  - timestamps (created_at, updated_at) are left out: no decision of the *)
(*    code reads them.                                                     *)
(***************************************************************************)
EXTENDS Integers, Sequences, FiniteSets, Bags, TLC

\* ---------------------------------------------------------------- bounds
\* number of process ids the table can hold
MaxPid == 2
\* number of advance coroutines that can be suspended at once
MaxSuspended == 2
\* number of steps of the longest plan a row of the table holds
LongPlanLen == 101

Pids == 1..MaxPid

\* ------------------------------------------------------------ data model
None == "None"
\* the absent score (score: float | None = None; no "score" key in a context)
NoScore == -1

ProcessType == {"fundamental_explanation", "guided_practice", "assessment"}
StepType == {"explain", "example", "exercise", "evaluate", "feedback"}

\* Enum.__str__ of a member of class cls: str(StepType.explain) is
\* "StepType.explain" (the str mixin does not change __str__)
EnumStr(cls, member) == cls \o "." \o member

\* Enum.__call__ by value: StepType(s) succeeds exactly for the values
EnumParses(members, s) == s \in members

DEFAULT_WORKFLOWS ==
  [t \in ProcessType |->
     CASE t = "fundamental_explanation" ->
            <<"explain", "example", "exercise", "evaluate", "feedback">>
       [] t = "guided_practice" -> <<"example", "exercise", "feedback">>
       [] t = "assessment" -> <<"exercise", "evaluate", "feedback">>]

get_workflowNoFallback(workflows, process_type) ==
  IF process_type \in DOMAIN workflows THEN workflows[process_type] ELSE <<>>

\* DEFAULT_WORKFLOWS.get(process_type, DEFAULT_WORKFLOWS[fundamental_explanation])
\* on the dictionary as it is when the call is made
get_workflow(workflows, process_type) ==
  IF process_type \in DOMAIN workflows
  THEN workflows[process_type]
  ELSE workflows["fundamental_explanation"]

Max(a, b) == IF a >= b THEN a ELSE b

\* ProcessInstance(id, user_id, topic, process_type, steps) with the defaults
\* current_index = 0 and history = []
NewInstance(pid, user_id, topic, ptype, steps) ==
  [id |-> pid, user_id |-> user_id, topic |-> topic, process_type |-> ptype,
   steps |-> steps, current_index |-> 0, history |-> <<>>]

is_completeGt(inst) == inst.current_index > Len(inst.steps)

is_complete(inst) == inst.current_index >= Len(inst.steps)

\* steps[current_index], Python's index being zero-based
current_step(inst) == inst.steps[inst.current_index + 1]

\* ProcessType(process_type) in start_process returns for the three values
\* and raises ValueError for every other string
valid_process_typeAny(process_type) == TRUE

valid_process_type(process_type) == EnumParses(ProcessType, process_type)

\* --------------------------------------------------------- step execution
\* context_chunks after the try block around rag.search_documents: what the
\* search returned, or [] when it raised
context_chunksOnError(rag) == IF rag.raises THEN <<"unavailable">> ELSE rag.chunks

context_chunks(rag) == IF rag.raises THEN <<>> ELSE rag.chunks

TruthyNotNone(user_input) == user_input # None

\* truthiness of user_input: None and "" are false
Truthy(user_input) == user_input # None /\ user_input # ""

EvaluateScoreWithInput == 100
EvaluateScoreWithoutInput == 50

\* the score of a step: only evaluate sets one
step_score(step, user_input) ==
  IF step = "evaluate"
  THEN IF Truthy(user_input) THEN EvaluateScoreWithInput
       ELSE EvaluateScoreWithoutInput
  ELSE NoScore

\* the content template chosen for a step (the topic is interpolated into
\* the first three, the score into the fourth)
step_content(step, score) ==
  CASE step = "explain" -> "Explicacao do topico"
    [] step = "example" -> "Exemplo pratico"
    [] step = "exercise" -> "Exercicio proposto"
    [] step = "evaluate" ->
         IF score = EvaluateScoreWithInput THEN "Avaliacao da resposta: score=1.00."
         ELSE "Avaliacao da resposta: score=0.50."
    [] step = "feedback" -> "Feedback objetivo e proximos passos."
    [] OTHER -> ""

\* StepResult(step, content, context); context holds citations, user_input
\* and, for a scored step, score
BuildResult(step, user_input, citations) ==
  LET score == step_score(step, user_input) IN
  [step |-> step, content |-> step_content(step, score),
   context |-> [citations |-> citations, user_input |-> user_input,
                score |-> score]]

AppendResultNoCursor(inst, result) ==
  [inst EXCEPT !.history = Append(@, result)]

\* instance.history.append(result); instance.current_index += 1
AppendResult(inst, result) ==
  [inst EXCEPT !.history = Append(@, result), !.current_index = @ + 1]

\* ---------------------------------------------------------- serialization
serialize_instance(inst) ==
  [id |-> inst.id, user_id |-> inst.user_id, topic |-> inst.topic,
   process_type |-> EnumStr("ProcessType", inst.process_type),
   steps |-> [i \in 1..Len(inst.steps) |-> EnumStr("StepType", inst.steps[i])],
   current_index |-> inst.current_index,
   history |-> [i \in 1..Len(inst.history) |->
                  [step |-> EnumStr("StepType", inst.history[i].step),
                   content |-> inst.history[i].content,
                   context |-> inst.history[i].context]]]

\* whether _deserialize_instance returns (it raises ValueError on the first
\* string that is no enum value)
Deserializable(row) ==
  /\ \A i \in 1..Len(row.history) : EnumParses(StepType, row.history[i].step)
  /\ \A i \in 1..Len(row.steps) : EnumParses(StepType, row.steps[i])
  /\ EnumParses(ProcessType, row.process_type)

\* the instance _deserialize_instance builds from a row it can parse
deserialize_instance(row) ==
  [id |-> row.id, user_id |-> row.user_id, topic |-> row.topic,
   process_type |-> CHOOSE t \in ProcessType : t = row.process_type,
   steps |-> [i \in 1..Len(row.steps) |->
                CHOOSE s \in StepType : s = row.steps[i]],
   current_index |-> row.current_index,
   history |-> [i \in 1..Len(row.history) |->
                  [step |-> CHOOSE s \in StepType : s = row.history[i].step,
                   content |-> row.history[i].content,
                   context |-> row.history[i].context]]]

\* ------------------------------------------------------ suggestion policy
ReinforceBelow == 60
PracticeBelow == 85
ConfidenceDefault == 60
ConfidenceReinforce == 80
ConfidencePractice == 70
ConfidenceConsolidate == 75

\* isinstance(h.context.get("score"), (int, float))
IsNumber(score) == score # NoScore

\* for h in reversed(instance.history): the first evaluate entry with a
\* numeric score gives last_score
RECURSIVE history_score(_)
history_score(history) ==
  IF history = <<>> THEN NoScore
  ELSE LET h == history[Len(history)] IN
       IF h.step = "evaluate" /\ IsNumber(h.context.score)
       THEN h.context.score
       ELSE history_score(SubSeq(history, 1, Len(history) - 1))

effective_scoreFalsy(score, history) ==
  IF score # NoScore /\ score # 0 THEN score ELSE history_score(history)

\* last_score = score; if last_score is None: scan the history
effective_score(score, history) ==
  IF score # NoScore THEN score ELSE history_score(history)

\* default_next: the next planned step, None at the end of the plan
default_next(inst) ==
  IF inst.current_index < Len(inst.steps)
  THEN <<inst.steps[inst.current_index + 1]>>
  ELSE <<>>

InSteps(step, inst) == \E i \in 1..Len(inst.steps) : inst.steps[i] = step

decideInclusive(inst, last_score) ==
  IF last_score # NoScore
  THEN IF last_score <= ReinforceBelow
       THEN [suggestion |-> <<IF InSteps("explain", inst) THEN "explain" ELSE "example">>,
             rationale |-> "reinforce", confidence |-> ConfidenceReinforce]
       ELSE IF last_score <= PracticeBelow
       THEN [suggestion |-> <<"exercise">>, rationale |-> "practice",
             confidence |-> ConfidencePractice]
       ELSE [suggestion |-> <<"feedback">>, rationale |-> "consolidate",
             confidence |-> ConfidenceConsolidate]
  ELSE [suggestion |-> default_next(inst), rationale |-> "default",
        confidence |-> ConfidenceDefault]

\* the decision table of suggest_next_step: suggestion, rationale, confidence
decide(inst, last_score) ==
  IF last_score # NoScore
  THEN IF last_score < ReinforceBelow
       THEN [suggestion |-> <<IF InSteps("explain", inst) THEN "explain" ELSE "example">>,
             rationale |-> "reinforce", confidence |-> ConfidenceReinforce]
       ELSE IF last_score < PracticeBelow
       THEN [suggestion |-> <<"exercise">>, rationale |-> "practice",
             confidence |-> ConfidencePractice]
       ELSE [suggestion |-> <<"feedback">>, rationale |-> "consolidate",
             confidence |-> ConfidenceConsolidate]
  ELSE [suggestion |-> default_next(inst), rationale |-> "default",
        confidence |-> ConfidenceDefault]

should_applyAlways(apply, suggestion) == suggestion # <<>>

\* if apply and suggestion is not None
should_apply(apply, suggestion) == apply /\ suggestion # <<>>

insert_stepAfterCurrent(inst, step) ==
  [inst EXCEPT !.steps =
     SubSeq(@, 1, inst.current_index + 1) \o <<step>>
       \o SubSeq(@, inst.current_index + 2, Len(@))]

insert_stepBeforeCursor(inst, step) ==
  [inst EXCEPT !.steps =
     SubSeq(@, 1, inst.current_index - 1) \o <<step>>
       \o SubSeq(@, Max(inst.current_index, 1), Len(@))]

\* steps[:current_index] + [suggestion] + steps[current_index:]
insert_step(inst, step) ==
  [inst EXCEPT !.steps =
     SubSeq(@, 1, inst.current_index) \o <<step>>
       \o SubSeq(@, inst.current_index + 1, Len(@))]

\* str(suggestion) if suggestion else None
RenderSuggestion(suggestion) ==
  IF suggestion # <<>> THEN EnumStr("StepType", suggestion[1]) ELSE None

\* ----------------------------------------------------------- session store
\* The education_sessions table: for each id at most one row. The database
\* call of an operation either succeeds (dbok) or raises.

\* get_session: the instance, when the select succeeds, finds a row and the
\* row deserializes; every other case is (False, error)
get_session(tbl, pid, dbok) ==
  IF dbok /\ tbl[pid] # <<>> /\ Deserializable(tbl[pid][1])
  THEN <<deserialize_instance(tbl[pid][1])>>
  ELSE <<>>

\* the table after create_session's insert of the serialized instance
create_session(tbl, inst, dbok) ==
  IF dbok THEN [tbl EXCEPT ![inst.id] = <<serialize_instance(inst)>>] ELSE tbl

save_sessionAll(tbl, inst, dbok) ==
  IF dbok /\ tbl[inst.id] # <<>>
  THEN [p \in DOMAIN tbl |->
          IF tbl[p] # <<>> THEN <<serialize_instance(inst)>> ELSE <<>>]
  ELSE tbl

\* the table after save_session's update ... eq("id", instance.id): the row
\* of that id, if there is one, becomes the serialized instance
save_session(tbl, inst, dbok) ==
  IF dbok /\ tbl[inst.id] # <<>>
  THEN [tbl EXCEPT ![inst.id] = <<serialize_instance(inst)>>]
  ELSE tbl

\* whether the update reached the table
Saved(tbl, inst, dbok) ==
  IF dbok /\ tbl[inst.id] # <<>> THEN "ok" ELSE "failed"

\* ------------------------------------------------------ progress observer
absorbPropagates(ret, failure, raised) == IF raised THEN failure ELSE ret

\* try: <progress_service call> except Exception: pass -- the call goes on
\* to return ret whether or not the progress service raised; failure is what
\* the caller would get if the exception left the block
absorb(ret, failure, raised) == ret

\* whether a call of the progress block of advance raised
emit_raised(inst, emit) ==
  emit = "update_raises" \/ (emit = "complete_raises" /\ is_complete(inst))

\* int(100 * current_index / max(len(steps), 1))
percentageBefore(inst) ==
  (100 * (inst.current_index - 1)) \div Max(Len(inst.steps), 1)

percentage(inst) == (100 * inst.current_index) \div Max(Len(inst.steps), 1)

\* the events advance hands to progress_service after the save: the update
\* and, for a complete instance, complete_operation. A raise of either call
\* ends the block (except Exception: pass).
progress_events(inst, step, emit) ==
  LET update == [kind |-> "update",
                 status |-> IF ~is_complete(inst) THEN "in_progress" ELSE "completed",
                 step |-> EnumStr("StepType", step),
                 percentage |-> percentage(inst)]
      complete == [kind |-> "complete", status |-> "completed",
                   step |-> EnumStr("StepType", step), percentage |-> 100]
  IN IF emit = "update_raises" THEN <<>>
     ELSE IF is_complete(inst) /\ emit = "ok" THEN <<update, complete>>
     ELSE <<update>>

\* ------------------------------------------------------------- the inputs
UserIds == {"u1"}
Topics == {"loops"}
\* process_type strings a caller sends: the three values and one that is none
ProcessTypeInputs == ProcessType \cup {"quiz"}
\* user_input: absent, empty, non-empty
UserInputs == {None, "", "x"}
\* score: absent, 0, and the two thresholds with their neighbours below
ScoreInputs == {NoScore, 0, 59, 60, 84, 85}
\* what rag.search_documents returns: no snippet or one ...
CitationLists == {<<>>, <<"doc">>}
\* ... or it raises
RagOutcomes ==
  {[raises |-> FALSE, chunks |-> c] : c \in CitationLists}
  \cup {[raises |-> TRUE, chunks |-> <<>>]}
EmitOutcomes == {"ok", "update_raises", "complete_raises"}

\* ------------------------------------------------ rows found in the table
\* The table outlives the process and is read with _deserialize_instance,
\* whose StepType(...) and ProcessType(...) accept the enum values. The rows
\* the table may hold when the service comes up are rows in that format: a
\* plan (a catalog workflow, or one with suggestions already spliced in) run
\* for some number of steps.
SeedPlans ==
  {[process_type |-> t, steps |-> get_workflow(DEFAULT_WORKFLOWS, t)] :
     t \in {"fundamental_explanation", "guided_practice"}}
  \cup {[process_type |-> "assessment",
         steps |-> <<"exercise", "evaluate", "evaluate", "feedback">>]}

\* the row of an instance as _deserialize_instance reads it: enum values
ValueRow(inst) ==
  [id |-> inst.id, user_id |-> inst.user_id, topic |-> inst.topic,
   process_type |-> inst.process_type, steps |-> inst.steps,
   current_index |-> inst.current_index, history |-> inst.history]

\* the instance of plan after the steps whose user inputs are inputs: one
\* result per step taken, the cursor at the number of steps taken
RECURSIVE RunPlan(_, _, _)
RunPlan(pid, plan, inputs) ==
  IF inputs = <<>>
  THEN NewInstance(pid, "u1", "loops", plan.process_type, plan.steps)
  ELSE LET before == RunPlan(pid, plan, SubSeq(inputs, 1, Len(inputs) - 1))
           done == BuildResult(current_step(before), inputs[Len(inputs)], <<>>)
       IN [before EXCEPT !.history = Append(@, done),
                         !.current_index = Len(inputs)]

\* user inputs of a run of k steps: one is given at evaluate steps only
SeedInputs(plan, k) ==
  {inputs \in [1..k -> {None, "x"}] :
     \A i \in 1..k : plan.steps[i] # "evaluate" => inputs[i] = None}

AllSeedInputs(plan) ==
  UNION {SeedInputs(plan, k) : k \in 0..Len(plan.steps)}

\* a guided_practice plan grown to LongPlanLen steps by suggestions applied
\* at cursor 0 (the reinforcement of a plan without explain is example)
LongPlan ==
  LET catalog == get_workflow(DEFAULT_WORKFLOWS, "guided_practice")
      added == LongPlanLen - Len(catalog)
  IN [process_type |-> "guided_practice",
      steps |-> [i \in 1..LongPlanLen |->
                   IF i <= added THEN "example" ELSE catalog[i - added]]]

SeedRows(pid) ==
  UNION {{ValueRow(RunPlan(pid, plan, inputs)) : inputs \in AllSeedInputs(plan)} :
           plan \in SeedPlans}
  \cup {ValueRow(RunPlan(pid, LongPlan, <<>>))}

\* ------------------------------------------------------------------ state
VARIABLES
  table,    \* education_sessions: process id -> the row, if any
  waiting,  \* the bag of advance() coroutines suspended at rag.search_documents
  last,     \* the call that returned in the latest step, with what it returned
  run,      \* process id -> the advance calls made on it one after another
  workflows, \* the module's dictionary DEFAULT_WORKFLOWS as it is now
  completions \* the process ids progress_service.complete_operation was given

vars == <<table, waiting, last, run, workflows, completions>>

\* no call returned in the latest step
NoCall == [op |-> "none"]

\* a process nobody tracks a run of
NoRun == [clean |-> FALSE, calls |-> <<>>]
FreshRun == [clean |-> TRUE, calls |-> <<>>]

IsFreshRow(row) ==
  /\ row.current_index = 0
  /\ row.process_type \in ProcessType
  /\ row.steps = get_workflow(DEFAULT_WORKFLOWS, row.process_type)

Init ==
  /\ table \in [Pids -> {<<>>}]
               \cup {[p \in Pids |-> IF p = 1 THEN <<row>> ELSE <<>>] :
                       row \in SeedRows(1)}
  /\ waiting = EmptyBag
  /\ last = NoCall
  /\ workflows = DEFAULT_WORKFLOWS
  /\ completions = {}
  /\ run = [p \in Pids |->
              IF table[p] # <<>> /\ IsFreshRow(table[p][1]) THEN FreshRun ELSE NoRun]

\* uuid4(): an id the table does not hold (the lowest, ids being interchangeable)
FreshPid(pid) ==
  /\ table[pid] = <<>>
  /\ \A q \in Pids : q < pid => table[q] # <<>>

\* ---------------------------------------------------------- start_process
StartProcess(user_id, topic, process_type, dbok, emitok) ==
  /\ last = NoCall
  /\ IF ~valid_process_type(process_type)
     THEN \* ProcessType(process_type) raises ValueError
          /\ last' = [op |-> "start", process_type |-> process_type,
                      raised |-> "ValueError", saved |-> "none",
                      emitted |-> <<>>, ret |-> <<>>]
          /\ UNCHANGED <<table, run>>
     ELSE \E pid \in Pids :
          /\ FreshPid(pid)
          /\ LET instance == NewInstance(pid, user_id, topic, process_type,
                                         get_workflow(workflows, process_type))
             IN /\ table' = create_session(table, instance, dbok)
                /\ last' = [op |-> "start", process_type |-> process_type,
                            raised |-> None,
                            saved |-> IF dbok THEN "ok" ELSE "failed",
                            emitted |-> IF emitok
                                        THEN <<[kind |-> "start",
                                                step |-> EnumStr("StepType", instance.steps[1])]>>
                                        ELSE <<>>,
                            ret |-> absorb(<<instance>>, <<>>, ~emitok)]
                /\ run' = [run EXCEPT ![pid] = IF dbok THEN FreshRun ELSE NoRun]
  /\ UNCHANGED <<waiting, workflows, completions>>

\* ------------------------------------------------------------ get_process
GetProcess(pid, dbok) ==
  /\ last = NoCall
  /\ last' = [op |-> "get", process_id |-> pid, ret |-> get_session(table, pid, dbok)]
  /\ UNCHANGED <<table, waiting, run, workflows, completions>>

\* ---------------------------------------------------------------- advance
Overlaps(pid) == \E f \in BagToSet(waiting) : f.process_id = pid

AdvanceReply(pid, user_input, rag_raised, loaded, saved, emitted, ret) ==
  [op |-> "advance", process_id |-> pid, user_input |-> user_input,
   rag_raised |-> rag_raised, loaded |-> loaded, saved |-> saved,
   emitted |-> emitted, ret |-> ret]

\* (an advance that finds no process leaves a process nothing was done to
\* as fresh as it was, and ends a run of advances that had begun)
\* advance up to its first suspension: get_session, the not-found and the
\* already-complete returns, current_step, and the call of search_documents.
\* user_input is not read before the coroutine resumes; its value is drawn
\* where it is first read.
AdvanceLoad(pid, dbok) ==
  /\ last = NoCall
  /\ LET got == get_session(table, pid, dbok) IN
     IF got = <<>>
     THEN /\ last' = AdvanceReply(pid, None, FALSE, <<>>, "none", <<>>,
                        [success |-> FALSE, error |-> "process_not_found",
                         completed |-> FALSE, result |-> <<>>, instance |-> <<>>])
          /\ run' = [run EXCEPT ![pid] = IF @.calls = <<>> THEN @ ELSE NoRun]
          /\ UNCHANGED waiting
     ELSE IF is_complete(got[1])
     THEN /\ last' = AdvanceReply(pid, None, FALSE, got, "none", <<>>,
                        [success |-> TRUE, error |-> None,
                         completed |-> TRUE, result |-> <<>>, instance |-> got])
          /\ UNCHANGED <<waiting, run>>
     ELSE IF got[1].current_index >= Len(got[1].steps)
     THEN \* steps[current_index] raises IndexError
          /\ last' = AdvanceReply(pid, None, FALSE, got, "none", <<>>,
                        [success |-> FALSE, error |-> "IndexError",
                         completed |-> FALSE, result |-> <<>>, instance |-> <<>>])
          /\ run' = [run EXCEPT ![pid] = NoRun]
          /\ UNCHANGED waiting
     ELSE /\ BagCardinality(waiting) < MaxSuspended
          /\ waiting' = waiting (+) SetToBag({[process_id |-> pid, loaded |-> got[1]]})
          /\ last' = NoCall
          /\ run' = IF Overlaps(pid) THEN [run EXCEPT ![pid] = NoRun] ELSE run
  /\ UNCHANGED <<table, workflows, completions>>

\* advance from the return of search_documents to its own return: the step's
\* content and score, the StepResult, the append and the cursor, save_session,
\* the progress events, the result
AdvanceResume(f, user_input, rag, dbok, emit) ==
  /\ last = NoCall
  /\ BagIn(f, waiting)
  /\ LET step == current_step(f.loaded)
         result == BuildResult(step, user_input, context_chunks(rag))
         instance == AppendResult(f.loaded, result)
     IN /\ table' = save_session(table, instance, dbok)
        /\ last' = AdvanceReply(f.process_id, user_input, rag.raises, <<f.loaded>>,
                      Saved(table, instance, dbok),
                      progress_events(instance, step, emit),
                      absorb([success |-> TRUE, error |-> None,
                              completed |-> is_complete(instance),
                              result |-> <<result>>, instance |-> <<instance>>],
                             [success |-> FALSE, error |-> "Exception",
                              completed |-> FALSE, result |-> <<>>,
                              instance |-> <<>>],
                             emit_raised(instance, emit)))
        /\ run' = [run EXCEPT ![f.process_id] =
                     IF @.clean /\ Len(@.calls) < Len(f.loaded.steps)
                     THEN [@ EXCEPT !.calls =
                             Append(@, [step |-> step,
                                        completed |-> is_complete(instance)])]
                     ELSE NoRun]
        /\ completions' =
             IF \E i \in 1..Len(progress_events(instance, step, emit)) :
                  progress_events(instance, step, emit)[i].kind = "complete"
             THEN completions \cup {f.process_id}
             ELSE completions
  /\ waiting' = waiting (-) SetToBag({f})
  /\ UNCHANGED workflows

\* ------------------------------------------------------ suggest_next_step
SuggestReply(pid, score, apply, loaded, last_score, decision, instance, saved, ret) ==
  [op |-> "suggest", process_id |-> pid, score |-> score, apply |-> apply,
   loaded |-> loaded, last_score |-> last_score, decision |-> decision,
   instance |-> instance, saved |-> saved, ret |-> ret]

SuggestNextStep(pid, score, apply, dbok, dbok2) ==
  /\ last = NoCall
  /\ LET got == get_session(table, pid, dbok) IN
     IF got = <<>>
     THEN /\ last' = SuggestReply(pid, score, apply, <<>>, NoScore, <<>>, <<>>, "none",
                        [keys |-> {"success", "error"}, success |-> FALSE,
                         error |-> "process_not_found", completed |-> FALSE,
                         suggestion |-> None, confidence |-> 0, applied |-> FALSE])
          /\ UNCHANGED <<table, run>>
     ELSE IF is_complete(got[1])
     THEN /\ last' = SuggestReply(pid, score, apply, got, NoScore, <<>>, got, "none",
                        [keys |-> {"success", "completed", "suggestion"},
                         success |-> TRUE, error |-> None, completed |-> TRUE,
                         suggestion |-> None, confidence |-> 0, applied |-> FALSE])
          /\ UNCHANGED <<table, run>>
     ELSE LET last_score == effective_score(score, got[1].history)
              decision == decide(got[1], last_score)
              applied == should_apply(apply, decision.suggestion)
              instance == IF applied THEN insert_step(got[1], decision.suggestion[1])
                          ELSE got[1]
          IN /\ table' = IF applied THEN save_session(table, instance, dbok2) ELSE table
             /\ last' = SuggestReply(pid, score, apply, got, last_score, <<decision>>,
                           <<instance>>,
                           IF applied THEN Saved(table, instance, dbok2) ELSE "none",
                           [keys |-> {"success", "completed", "suggestion",
                                      "rationale", "confidence", "applied"},
                            success |-> TRUE, error |-> None,
                            completed |-> is_complete(instance),
                            suggestion |-> RenderSuggestion(decision.suggestion),
                            confidence |-> decision.confidence,
                            applied |-> applied])
             /\ run' = IF applied THEN [run EXCEPT ![pid] = NoRun] ELSE run
  /\ UNCHANGED <<waiting, workflows, completions>>

\* ----------------------------------------------------------------- return
\* The route handler takes what the call returned and answers the request;
\* the next request is served after that.
Return ==
  /\ last # NoCall
  /\ last' = NoCall
  /\ UNCHANGED <<table, waiting, run, workflows, completions>>

\* ------------------------------------------------------------------- next
Next ==
  \/ \E u \in UserIds, t \in Topics, pt \in ProcessTypeInputs, dbok \in BOOLEAN,
        emitok \in BOOLEAN : StartProcess(u, t, pt, dbok, emitok)
  \/ \E pid \in Pids, dbok \in BOOLEAN : GetProcess(pid, dbok)
  \/ \E pid \in Pids, dbok \in BOOLEAN : AdvanceLoad(pid, dbok)
  \/ \E f \in BagToSet(waiting), ui \in UserInputs, rag \in RagOutcomes,
        dbok \in BOOLEAN, emit \in EmitOutcomes :
        AdvanceResume(f, ui, rag, dbok, emit)
  \/ \E pid \in Pids, score \in ScoreInputs, apply \in BOOLEAN, dbok \in BOOLEAN,
        dbok2 \in BOOLEAN : SuggestNextStep(pid, score, apply, dbok, dbok2)
  \/ Return

Spec == Init /\ [][Next]_vars

\* =================================================================== claims
\* the instances a state holds: the rows of the table (a row carries the
\* same current_index, steps and history fields), the instances loaded by
\* suspended advances, and the instance the latest advance returned
HeldInstances ==
  {table[p][1] : p \in {q \in Pids : table[q] # <<>>}}
  \cup {f.loaded : f \in BagToSet(waiting)}
  \cup (IF last.op = "advance" /\ last.ret.instance # <<>>
        THEN {last.ret.instance[1]} ELSE {})

\* C1: every persisted instance and every instance advance returns has as
\* many history entries as its cursor says, whatever the store and the
\* progress service did.
C1_HistoryLenIsCursor ==
  \A x \in HeldInstances : Len(x.history) = x.current_index

\* an advance whose update reached the table returned an advanced instance
C1_Witness ==
  /\ last.op = "advance"
  /\ last.saved = "ok"
  /\ last.ret.instance # <<>>
  /\ last.ret.instance[1].current_index >= 2
  /\ table[last.process_id][1].current_index = last.ret.instance[1].current_index

\* C2: the cursor of every instance lies in 0..len(steps), and is_complete
\* says exactly that the cursor is at len(steps).
C2_CursorInRange ==
  \A x \in HeldInstances :
    /\ 0 <= x.current_index
    /\ x.current_index <= Len(x.steps)
    /\ is_complete(x) <=> (x.current_index = Len(x.steps))

\* an advance moved the cursor to the end of the plan and the row holds it
C2_Witness ==
  /\ last.op = "advance"
  /\ last.saved = "ok"
  /\ last.ret.result # <<>>
  /\ last.ret.completed
  /\ table[last.process_id][1].current_index = Len(table[last.process_id][1].steps)

\* C3: a fresh process of N steps on which N advance calls, one after the
\* other and with no suggestion applied, each returned success is complete
\* with N history entries, the i-th being the step that was current before
\* the i-th call; the calls returned completed=false but for the last.
C3_NAdvancesComplete ==
  \A p \in Pids :
    (run[p].clean /\ table[p] # <<>>
       /\ Len(run[p].calls) = Len(table[p][1].steps)) =>
      LET row == table[p][1]
          N == Len(row.steps)
      IN /\ row.current_index = N
         /\ Len(row.history) = N
         /\ \A i \in 1..N :
              /\ i <= Len(row.history) =>
                   row.history[i].step \in {run[p].calls[i].step,
                                            EnumStr("StepType", run[p].calls[i].step)}
              /\ run[p].calls[i].completed <=> (i = N)

C7_CommitSeesPriorCommit ==
  [][(last'.op \in {"advance", "suggest"} /\ last'.saved = "ok")
     => /\ Deserializable(table[last'.process_id][1])
        /\ deserialize_instance(table[last'.process_id][1]) = last'.loaded[1]]_vars

\* C8: a call whose update did not reach the table does not return success.
C8_FailedUpdateIsAnError ==
  (last.op \in {"advance", "suggest"} /\ last.saved = "failed") => ~last.ret.success

\* C9: the decision is the table's row for the effective score.
C9_DecisionTable ==
  (last.op = "suggest" /\ last.decision # <<>>) =>
    LET s == last.last_score
        d == last.decision[1]
        inst == last.loaded[1]
    IN /\ s = NoScore =>
            /\ d.suggestion = <<inst.steps[inst.current_index + 1]>>
            /\ d.confidence = 60
       /\ (s # NoScore /\ s < 60) =>
            /\ d.suggestion =
                 <<IF \E i \in 1..Len(inst.steps) : inst.steps[i] = "explain"
                   THEN "explain" ELSE "example">>
            /\ d.confidence = 80
       /\ (s >= 60 /\ s < 85) =>
            /\ d.suggestion = <<"exercise">>
            /\ d.confidence = 70
       /\ s >= 85 =>
            /\ d.suggestion = <<"feedback">>
            /\ d.confidence = 75
       /\ last.ret.confidence = d.confidence

\* a score just under the first threshold, on a plan without explain
C9_Witness ==
  /\ last.op = "suggest"
  /\ last.decision # <<>>
  /\ last.last_score = 59
  /\ last.decision[1].suggestion = <<"example">>
  /\ last.ret.confidence = 80

\* the entries of a history that are evaluate steps with a numeric score
ScoredEvaluations(history) ==
  {i \in 1..Len(history) :
     history[i].step = "evaluate" /\ history[i].context.score # NoScore}

\* C10: the effective score is the score supplied, 0 included; with none
\* supplied it is the score of the latest evaluate entry of the history
\* that has one, and absent when there is no such entry.
C10_EffectiveScore ==
  (last.op = "suggest" /\ last.decision # <<>>) =>
    LET history == last.loaded[1].history
        hits == ScoredEvaluations(history)
    IN IF last.score # NoScore THEN last.last_score = last.score
       ELSE IF hits = {} THEN last.last_score = NoScore
       ELSE \E i \in hits :
              /\ \A j \in hits : j <= i
              /\ last.last_score = history[i].context.score

\* no score was supplied and the history holds two evaluations with
\* different scores: the later one is the effective score
C10_Witness ==
  /\ last.op = "suggest"
  /\ last.decision # <<>>
  /\ last.score = NoScore
  /\ \E i, j \in ScoredEvaluations(last.loaded[1].history) :
       /\ i < j
       /\ last.loaded[1].history[i].context.score
            # last.loaded[1].history[j].context.score
       /\ last.last_score = last.loaded[1].history[j].context.score

\* the instance an advance builds from the one it loaded and its result
Advanced(old, result) ==
  [old EXCEPT !.history = Append(@, result), !.current_index = @ + 1]

\* C11: a call during which the progress service raised returns what it
\* returns otherwise and keeps what it wrote: start returns the new instance
\* and an advance returns success with the step's result and the advanced
\* instance, and the row of a write that reached the table is that instance.
C11_EmissionFailureAbsorbed ==
  /\ (last.op = "start" /\ last.raised = None /\ last.emitted = <<>>) =>
       /\ last.ret # <<>>
       /\ last.ret[1].current_index = 0
       /\ last.ret[1].history = <<>>
       /\ last.ret[1].steps = get_workflow(workflows, last.process_type)
       /\ last.saved = "ok" =>
            table[last.ret[1].id] = <<serialize_instance(last.ret[1])>>
  /\ (/\ last.op = "advance"
      /\ last.loaded # <<>>
      /\ last.loaded[1].current_index < Len(last.loaded[1].steps)
      /\ Len(last.emitted) <
           (IF last.loaded[1].current_index + 1 = Len(last.loaded[1].steps)
            THEN 2 ELSE 1)) =>
       LET old == last.loaded[1] IN
       /\ last.ret.success
       /\ last.ret.result # <<>>
       /\ last.ret.result[1].step = old.steps[old.current_index + 1]
       /\ last.ret.instance = <<Advanced(old, last.ret.result[1])>>
       /\ last.ret.completed <=> (old.current_index + 1 = Len(old.steps))
       /\ last.saved \in {"ok", "failed"}
       /\ last.saved = "ok" =>
            table[last.process_id] = <<serialize_instance(last.ret.instance[1])>>

\* update_progress raised in an advance whose write reached the table
C11_Witness ==
  /\ last.op = "advance"
  /\ last.loaded # <<>>
  /\ last.loaded[1].current_index + 1 = Len(last.loaded[1].steps)
  /\ last.emitted = <<>>
  /\ last.saved = "ok"
  /\ last.ret.success
  /\ last.ret.completed
  /\ table[last.process_id][1].current_index = Len(last.loaded[1].steps)

\* C12: an advance whose retrieval raised returns success with the result
\* the step gives for no snippets (empty citations) and with the loaded
\* instance advanced by that one result, and a write that reached the table
\* left that instance in the row.
C12_RetrievalFailureAbsorbed ==
  (last.op = "advance" /\ last.rag_raised) =>
    LET old == last.loaded[1]
        zero == BuildResult(old.steps[old.current_index + 1], last.user_input, <<>>)
    IN /\ last.ret.success
       /\ last.ret.result = <<zero>>
       /\ zero.context.citations = <<>>
       /\ last.ret.instance = <<Advanced(old, zero)>>
       /\ Len(last.ret.instance[1].history) = Len(old.history) + 1
       /\ last.ret.instance[1].current_index = old.current_index + 1
       /\ last.saved \in {"ok", "failed"}
       /\ last.saved = "ok" =>
            table[last.process_id] = <<serialize_instance(Advanced(old, zero))>>

\* the retrieval raised in an advance that was given a user input and whose
\* write reached the table
C12_Witness ==
  /\ last.op = "advance"
  /\ last.rag_raised
  /\ last.user_input = "x"
  /\ last.saved = "ok"
  /\ last.ret.success
  /\ last.ret.result # <<>>
  /\ last.ret.result[1].context.citations = <<>>
  /\ Len(table[last.process_id][1].history) = Len(last.loaded[1].history) + 1

\* C13: start with a process_type that is none of the three values raises
\* ValueError (the route's 400), returns no instance, attempts no write,
\* emits no event and leaves the table as it was.
C13_InvalidTypeCreatesNothing ==
  [][(/\ last'.op = "start"
      /\ last'.process_type \notin
           {"fundamental_explanation", "guided_practice", "assessment"})
     => /\ last'.raised = "ValueError"
        /\ last'.ret = <<>>
        /\ last'.saved = "none"
        /\ last'.emitted = <<>>
        /\ table' = table]_vars

\* start was refused for a type that is no value while the table held a process
C13_Witness ==
  /\ last.op = "start"
  /\ last.process_type = "quiz"
  /\ last.raised = "ValueError"
  /\ \E p \in Pids : table[p] # <<>>

\* whether the call that returned reported that there is no such process
ReportsNotFound(call) ==
  \/ call.op = "get" /\ call.ret = <<>>
  \/ call.op \in {"advance", "suggest"} /\ call.ret.error = "process_not_found"

\* C14: get, advance and suggest_next_step report not-found for an id the
\* table holds no row of, writing nothing and emitting nothing, and report
\* not-found for no other id.
C14_NotFoundIffUnknown ==
  [][(last'.op \in {"get", "advance", "suggest"})
     => /\ table[last'.process_id] = <<>> =>
             /\ ReportsNotFound(last')
             /\ table' = table
             /\ last'.op \in {"advance", "suggest"} => last'.saved = "none"
             /\ last'.op = "advance" => last'.emitted = <<>>
        /\ ReportsNotFound(last') => table[last'.process_id] = <<>>]_vars

IsPrefix(old, new) ==
  /\ Len(old) <= Len(new)
  /\ \A i \in 1..Len(old) : new[i] = old[i]

\* C16: with operations run one at a time (at most one advance in flight,
\* and that one holding the row as it is now), a step leaves every row in
\* the table and leaves its stored history as a prefix of the new one, the
\* old entries as they were.
C16_HistoryAppendOnly ==
  [][\A p \in Pids :
       (/\ table[p] # <<>>
        /\ BagCardinality(waiting) <= 1
        /\ \A f \in BagToSet(waiting) :
             /\ Deserializable(table[f.process_id][1])
             /\ f.loaded = deserialize_instance(table[f.process_id][1]))
       => /\ table'[p] # <<>>
          /\ IsPrefix(table[p][1].history, table'[p][1].history)]_vars

\* C17: the catalog dictionary keeps its three sequences in every step; a
\* suggest_next_step call leaves the rows of all other processes as they
\* were; and start returns the catalog sequence of its type whatever was
\* applied to other processes before.
C17_TemplatesUntouched ==
  [][/\ workflows = DEFAULT_WORKFLOWS
     /\ workflows' = DEFAULT_WORKFLOWS
     /\ last'.op = "suggest" =>
          \A q \in Pids \ {last'.process_id} : table'[q] = table[q]
     /\ (last'.op = "start" /\ last'.raised = None) =>
          /\ last'.ret # <<>>
          /\ last'.ret[1].steps = DEFAULT_WORKFLOWS[last'.process_type]]_vars

\* a suggestion was written into the steps of one process while the table
\* held a second process of the same type, started from the catalog
C17_Witness ==
  /\ last.op = "suggest"
  /\ last.ret.applied
  /\ last.saved = "ok"
  /\ Len(table[last.process_id][1].steps) =
       Len(DEFAULT_WORKFLOWS[last.loaded[1].process_type]) + 1
  /\ \E q \in Pids \ {last.process_id} :
       /\ table[q] # <<>>
       /\ table[q][1] =
            serialize_instance(
              NewInstance(q, "u1", "loops", last.loaded[1].process_type,
                          DEFAULT_WORKFLOWS[last.loaded[1].process_type]))

\* C18: start with one of the three types returns an instance at cursor 0,
\* with no history, not complete, whose steps are the sequence documented
\* for the type; and the catalog lookup gives the fundamental_explanation
\* sequence for a key that is none of the three.
C18_StartYieldsCatalogPlan ==
  /\ (/\ last.op = "start"
      /\ last.process_type \in
           {"fundamental_explanation", "guided_practice", "assessment"}) =>
       /\ last.ret # <<>>
       /\ last.ret[1].current_index = 0
       /\ last.ret[1].history = <<>>
       /\ last.ret[1].current_index < Len(last.ret[1].steps)
       /\ ~is_complete(last.ret[1])
       /\ last.ret[1].process_type = last.process_type
       /\ last.process_type = "fundamental_explanation" =>
            last.ret[1].steps = <<"explain", "example", "exercise", "evaluate", "feedback">>
       /\ last.process_type = "guided_practice" =>
            last.ret[1].steps = <<"example", "exercise", "feedback">>
       /\ last.process_type = "assessment" =>
            last.ret[1].steps = <<"exercise", "evaluate", "feedback">>
  /\ \A key \in ProcessTypeInputs \ ProcessType :
       get_workflow(workflows, key) =
         <<"explain", "example", "exercise", "evaluate", "feedback">>

\* start returned an assessment process
C18_Witness ==
  /\ last.op = "start"
  /\ last.process_type = "assessment"
  /\ last.saved = "ok"
  /\ last.ret # <<>>
  /\ last.ret[1].steps = <<"exercise", "evaluate", "feedback">>
  /\ last.ret[1].current_index = 0

\* C19: the result of an advance is of the step that was current; at an
\* evaluate step its context holds score 1.0 for a user input that is there
\* and not empty and 0.5 for none or the empty string, and at every other
\* step it holds no score.
C19_EvaluateScore ==
  (last.op = "advance" /\ last.ret.result # <<>>) =>
    LET old == last.loaded[1]
        step == old.steps[old.current_index + 1]
        r == last.ret.result[1]
    IN /\ r.step = step
       /\ r.context.user_input = last.user_input
       /\ (step = "evaluate" /\ last.user_input \notin {None, ""}) =>
            r.context.score = 100
       /\ (step = "evaluate" /\ last.user_input \in {None, ""}) =>
            r.context.score = 50
       /\ step # "evaluate" => r.context.score = NoScore

\* an evaluate step was run with the empty string as user input
C19_Witness ==
  /\ last.op = "advance"
  /\ last.ret.result # <<>>
  /\ last.ret.result[1].step = "evaluate"
  /\ last.user_input = ""
  /\ last.ret.result[1].context.score = 50

\* C20: in every row, every loaded instance and every returned instance,
\* the i-th history entry is of the i-th step of the plan, for every i up
\* to the cursor.
C20_HistoryMatchesSteps ==
  \A x \in HeldInstances
           \cup (IF last.op = "suggest" /\ last.instance # <<>>
                 THEN {last.instance[1]} ELSE {}) :
    /\ x.current_index <= Len(x.history)
    /\ x.current_index <= Len(x.steps)
    /\ \A i \in 1..x.current_index : x.history[i].step = x.steps[i]

\* a suggestion other than the step last taken was written into the row of
\* a process that had taken at least two steps
C20_Witness ==
  /\ last.op = "suggest"
  /\ last.ret.applied
  /\ last.saved = "ok"
  /\ last.loaded[1].current_index >= 2
  /\ last.decision[1].suggestion[1]
       # last.loaded[1].steps[last.loaded[1].current_index]
  /\ table[last.process_id][1].current_index = last.loaded[1].current_index
  /\ Len(table[last.process_id][1].steps) = Len(last.loaded[1].steps) + 1

\* C21: when start has returned an instance, the table holds it: reading
\* the returned id back (the store answering) gives the instance returned,
\* with its user_id, topic, process_type and steps, cursor 0 and no history.
C21_StartedIsPersisted ==
  (last.op = "start" /\ last.ret # <<>>) =>
    /\ table[last.ret[1].id] # <<>>
    /\ get_session(table, last.ret[1].id, TRUE) = last.ret

\* whether the call that returned emitted the completion event
EmitsCompletion(call) ==
  /\ call.op = "advance"
  /\ \E i \in 1..Len(call.emitted) : call.emitted[i].kind = "complete"

\* C22: an advance emits the completion event only for a process for which
\* none was emitted before, and only when the row it leaves in the table is
\* that of a complete process.
C22_CompletionOnceAndPersisted ==
  [][EmitsCompletion(last')
     => /\ last'.process_id \notin completions
        /\ table'[last'.process_id] # <<>>
        /\ table'[last'.process_id][1].current_index
             >= Len(table'[last'.process_id][1].steps)]_vars

\* the steps a row has left: len(steps) - current_index
Remaining(row) == Len(row.steps) - row.current_index

\* C23: an advance that returns success with a result leaves the process
\* with one remaining step fewer than it had, and a suggestion reported as
\* applied leaves it with one more (so that advances, with finitely many
\* suggestions between them, run the remaining steps down to none).
C23_RemainingStepsCount ==
  [][/\ (/\ last'.op = "advance"
         /\ last'.ret.success
         /\ last'.ret.result # <<>>) =>
          /\ table'[last'.process_id] # <<>>
          /\ Remaining(table'[last'.process_id][1])
               = Remaining(table[last'.process_id][1]) - 1
     /\ (last'.op = "suggest" /\ last'.ret.applied) =>
          /\ table'[last'.process_id] # <<>>
          /\ Remaining(table'[last'.process_id][1])
               = Remaining(table[last'.process_id][1]) + 1]_vars

\* the progress updates the call that returned emitted
Updates(call) ==
  {call.emitted[i] : i \in {j \in 1..Len(call.emitted) :
                              call.emitted[j].kind = "update"}}

\* C24 as stated: every progress update of an advance carries the floor of
\* 100 * current_index / len(steps) of the advanced instance, a number in
\* 1..100 that is 100 exactly when the status is "completed".
C24_PercentageFrom1 ==
  (last.op = "advance" /\ last.ret.instance # <<>>) =>
    \A u \in Updates(last) :
      LET inst == last.ret.instance[1] IN
      /\ u.percentage * Len(inst.steps) <= 100 * inst.current_index
      /\ 100 * inst.current_index < (u.percentage + 1) * Len(inst.steps)
      /\ u.percentage \in 1..100
      /\ u.status \in {"in_progress", "completed"}
      /\ u.percentage = 100 <=> u.status = "completed"

\* C24 as amended: every progress update of an advance carries the floor of
\* 100 * current_index / len(steps) of the advanced instance, a number in
\* 0..100 that is 100 exactly when the status is "completed" and at least 1
\* when the plan has at most 100 steps.
C24_Percentage ==
  (last.op = "advance" /\ last.ret.instance # <<>>) =>
    \A u \in Updates(last) :
      LET inst == last.ret.instance[1] IN
      /\ u.percentage * Len(inst.steps) <= 100 * inst.current_index
      /\ 100 * inst.current_index < (u.percentage + 1) * Len(inst.steps)
      /\ u.percentage \in 0..100
      /\ u.status \in {"in_progress", "completed"}
      /\ u.percentage = 100 <=> u.status = "completed"
      /\ Len(inst.steps) <= 100 => u.percentage >= 1

\* the first step of a plan of more than 100 steps was taken: the update
\* says 0 percent, in progress
C24_Witness ==
  /\ last.op = "advance"
  /\ last.ret.instance # <<>>
  /\ Len(last.ret.instance[1].steps) > 100
  /\ last.ret.instance[1].current_index = 1
  /\ \E u \in Updates(last) : u.percentage = 0 /\ u.status = "in_progress"
====
